---- MODULE Spec2Model ----
(***************************************************************************)
(* Model of src/app.py: an HTTP gateway that verifies a bearer token       *)
(* against an identity provider (Bubble), derives an object key, writes    *)
(* the object to S3 (or presigns a URL) and reports the object's URL back  *)
(* to the identity provider.                                               *)
(*                                                                         *)
(* Strings are sequences of one-character strings, so that sanitising,     *)
(* os.path.splitext, str.startswith and strftime are computed character by *)
(* character as the code computes them.  One request is served at a time   *)
(* (the handlers share no mutable state); pc is the position inside the    *)
(* request and calls is the list of outbound calls the request has made.   *)
(***************************************************************************)
EXTENDS Integers, Sequences, FiniteSets, TLC

VARIABLES
    pc,                    \* position in the request: idle, verify, handler, put, save, done
    route,                 \* the route of the request (lines 124, 254, 316)
    credentials,           \* credentials.credentials, or None (lines 51-61)
    idp,                   \* what requests.post to verify-user-token did (lines 76-81)
    user_data,             \* the context verify_bubble_token returned (lines 100-106)
    file_filename,         \* file.filename (line 146)
    filename,              \* the filename parameter (lines 128, 257, 320)
    timestamp,             \* line 143, 266
    user_id,               \* line 134, 262, 325
    safe_filename,         \* lines 151-161, 267
    timestamped_filename,  \* line 164, 268
    new_filename,          \* the object key, lines 167-174, 271
    folder,                \* line 170, 270
    file_url,              \* line 194, 296, 319
    calls,                 \* the outbound calls of the request, in order
    response               \* the response of the request

vars == <<pc, route, credentials, idp, user_data,
          file_filename, filename, timestamp,
          user_id, safe_filename, timestamped_filename, new_filename, folder,
          file_url, calls, response>>

(***************************************************************************)
(* Bounds of the model.                                                    *)
(***************************************************************************)
\* longest original filename (file.filename) a request carries
MaxNameLen == 4

(***************************************************************************)
(* Characters and strings.                                                 *)
(***************************************************************************)
Letters == {"a","b","c","d","e","f","g","h","i","j","k","l","m","n","o","p",
            "q","r","s","t","u","v","w","x","y","z",
            "A","B","C","D","E","F","G","H","I","J","K","L","M","N","O","P",
            "Q","R","S","T","U","V","W","X","Y","Z"}

Digits == <<"0","1","2","3","4","5","6","7","8","9">>

\* str.isalnum() on one character
isalnum(c) == c \in Letters \/ c \in {Digits[i] : i \in 1..10}

\* the characters of the string literal '._- ' (lines 151, 267)
AllowedPunctuation == {".", "_", "-", " "}

\* ''.join(c for c in s if c.isalnum() or c in '._- ')
Sanitize(s) == SelectSeq(s, LAMBDA c : isalnum(c) \/ c \in AllowedPunctuation)

\* str.rfind(c), 1-based; 0 when c does not occur (Python's -1)
rfind(s, c) ==
    LET hits == {i \in 1..Len(s) : s[i] = c}
    IN  IF hits = {} THEN 0 ELSE CHOOSE i \in hits : \A j \in hits : j <= i

\* os.path.splitext (posixpath): the extension starts at the last dot of the
\* last path component, unless that component has only dots before it
splitext(p) ==
    LET sepIndex == rfind(p, "/")
        dotIndex == rfind(p, ".")
    IN  IF /\ dotIndex > sepIndex
           /\ \E i \in (sepIndex + 1)..(dotIndex - 1) : p[i] # "."
        THEN <<SubSeq(p, 1, dotIndex - 1), SubSeq(p, dotIndex, Len(p))>>
        ELSE <<p, <<>> >>

\* str.startswith
startswith(s, prefix) ==
    /\ Len(s) >= Len(prefix)
    /\ SubSeq(s, 1, Len(prefix)) = prefix

\* a number as decimal digits, zero-padded to width w (strftime's %Y %m %d %H %M %S)
RECURSIVE Pad(_, _)
Pad(n, w) == IF w = 0 THEN <<>> ELSE Pad(n \div 10, w - 1) \o <<Digits[(n % 10) + 1]>>

\* datetime.strftime("%Y%m%d_%H%M%S")
strftime(now) ==
    Pad(now.year, 4) \o Pad(now.month, 2) \o Pad(now.day, 2) \o <<"_">>
      \o Pad(now.hour, 2) \o Pad(now.minute, 2) \o Pad(now.second, 2)

Slash == <<"/">>
Bearer == <<"B","e","a","r","e","r"," ">>

(***************************************************************************)
(* Python and JSON values: None/null, strings, objects (dicts), arrays.    *)
(***************************************************************************)
None == [t |-> "null"]
JStr(s) == [t |-> "str", s |-> s]
JObj(o) == [t |-> "obj", o |-> o]
JArr == [t |-> "arr"]
NoFields == [k \in {} |-> None]

IsObj(v) == v.t = "obj"

\* dict.get(key, default)
Get(d, key, default) == IF key \in DOMAIN d.o THEN d.o[key] ELSE default

\* the truth value of a Python value
Truthy(v) ==
    CASE v.t = "null" -> FALSE
      [] v.t = "str"  -> v.s # <<>>
      [] v.t = "obj"  -> DOMAIN v.o # {}
      [] v.t = "arr"  -> FALSE

\* str(v) of a string or of None
str(v) == IF v.t = "str" THEN v.s ELSE <<"N","o","n","e">>

(***************************************************************************)
(* Settings (environment) and the inputs a request can carry.              *)
(***************************************************************************)
S3_BUCKET_NAME == <<"b","k","t">>
S3_REGION == <<"a","p","-","s","o","u","t","h","e","a","s","t","-","2">>

\* f"https://{settings.S3_BUCKET_NAME}.s3.{settings.S3_REGION}.amazonaws.com/{key}"
s3_url(key) ==
    <<"h","t","t","p","s",":","/","/">> \o S3_BUCKET_NAME \o <<".","s","3",".">>
      \o S3_REGION
      \o <<".","a","m","a","z","o","n","a","w","s",".","c","o","m","/">> \o key

Routes == {"upload", "get-upload-url", "confirm-upload"}

\* the credential of the request: None, or the string after the scheme of the
\* Authorization header ("Authorization: Bearer Bearer tk" gives 'Bearer tk')
Credentials == {None, JStr(<<"t","k">>), JStr(Bearer \o <<"t","k">>)}

RECURSIVE StringsOver(_, _)
\* all strings over an alphabet of length 1..n
StringsOver(alphabet, n) ==
    IF n = 0 THEN {}
    ELSE LET shorter == StringsOver(alphabet, n - 1)
         IN  {<<c>> : c \in alphabet} \cup shorter
               \cup {s \o <<c>> : s \in shorter, c \in alphabet}

\* file.filename, as the multipart body names it: any non-empty string
OriginalNames == StringsOver({"r", ".", "/"}, MaxNameLen)

\* the filename query parameter
FilenameParams ==
    { <<>>, <<"n">>, <<"n",".","t">>, <<".","t">>, <<"/">>, <<"#","/">>,
      <<".",".","/","n">>, <<"n"," ","-","_","1">> }

\* /upload's filename parameter defaults to None
CustomNames == {None} \cup {JStr(s) : s \in FilenameParams}

\* datetime.now()
Nows == { [year |-> 2024, month |-> 3, day |-> 1, hour |-> 10, minute |-> 0, second |-> 0],
          [year |-> 2025, month |-> 12, day |-> 31, hour |-> 23, minute |-> 59, second |-> 59] }

\* /confirm-upload's file_url query parameter
FileUrls == { s3_url(<<"k">>), <<"x">> }

(***************************************************************************)
(* What the identity provider can answer to verify-user-token.             *)
(***************************************************************************)
Absent == [t |-> "absent"]
NotJson == [t |-> "notjson"]
Field(k, v) == IF v = Absent THEN NoFields ELSE (k :> v)

IdChoices == {Absent, None, JStr(<<>>), JStr(<<"u","1">>), JStr(<<"U","1">>)}
WorkspaceChoices == {Absent, JStr(<<>>), JStr(<<"t","A">>)}
AuthenticationChoices ==
    { Absent, None, JObj("email" :> JStr(<<"e">>)),
      JObj("email" :> JObj("email" :> JStr(<<"e">>))) }

UserRecords ==
    { JObj(Field("_id", i) @@ Field("Workspace", w) @@ Field("authentication", a)) :
        i \in IdChoices, w \in WorkspaceChoices, a \in AuthenticationChoices }

ResponseChoices ==
    {Absent, None, JStr(<<"x">>)}
      \cup {JObj(Field("user", u)) : u \in {Absent, None, JStr(<<"x">>)} \cup UserRecords}

Success == <<"s","u","c","c","e","s","s">>
Failure == <<"e","r","r","o","r">>

Bodies ==
    {NotJson, JArr}
      \cup { JObj(Field("status", s) @@ Field("response", r)) :
               s \in {Absent, JStr(Success), JStr(Failure)},
               r \in ResponseChoices }

ValidBody ==
    JObj(("status" :> JStr(Success))
           @@ ("response" :> JObj("user" :> JObj(("_id" :> JStr(<<"u","1">>))
                                                  @@ ("Workspace" :> JStr(<<"t","A">>))))))

NoOutcome == [kind |-> "none"]
\* requests.post raised requests.RequestException (no route, timeout)
TransportError == [kind |-> "error"]
Returned(code, body) == [kind |-> "response", status_code |-> code, body |-> body]

IdpOutcomes ==
    {TransportError}
      \cup {Returned(200, b) : b \in Bodies}
      \cup {Returned(c, b) : c \in {401, 500}, b \in {NotJson, ValidBody}}

\* what save-s3-url can answer: an exception, or a status and a body that
\* response.json() can or cannot parse
SaveOutcomes ==
    {TransportError}
      \cup {[kind |-> "response", status_code |-> c, json |-> j] :
              c \in {200, 503}, j \in BOOLEAN}

(***************************************************************************)
(* verify_bubble_token (lines 51-122).  A result is either a user context  *)
(* or the HTTPException the dependency raises.                             *)
(***************************************************************************)
NoContext == [t |-> "none"]
Raise(code) == [ok |-> FALSE, status_code |-> code, user_data |-> NoContext]
Return(context) == [ok |-> TRUE, status_code |-> 0, user_data |-> context]

\* lines 61-63: the Authorization header sent to verify-user-token
verify_authorization(token) ==
    IF ~startswith(token, Bearer) THEN Bearer \o token ELSE token

\* status_rejected without the check of line 87: every status is let through
status_rejected_never(outcome) == FALSE

\* lines 87-91: a status other than 200 raises
status_rejected(outcome) == outcome.status_code # 200

\* lines 99-106: the context built from the user record; every .get on a
\* value that is not a dict raises AttributeError, which line 118 turns into 401
user_context(user) ==
    LET authentication == Get(user, "authentication", JObj(NoFields))
    IN  IF ~IsObj(authentication) THEN Raise(401)
        ELSE LET email == Get(authentication, "email", JObj(NoFields))
             IN  IF ~IsObj(email) THEN Raise(401)
                 ELSE Return([_id       |-> user.o["_id"],
                              name      |-> Get(user, "Name", None),
                              workspace |-> Get(user, "Workspace", None),
                              email     |-> Get(email, "email", None),
                              role      |-> Get(user, "Role", None)])

\* lines 93-111: response.json() and the extraction of the nested user
extract_user(body) ==
    IF body = NotJson THEN Raise(401)
    ELSE IF ~IsObj(body) THEN Raise(401)
    ELSE IF Get(body, "status", None) # JStr(Success) THEN Raise(401)
    ELSE LET resp == Get(body, "response", JObj(NoFields))
         IN  IF ~IsObj(resp) THEN Raise(401)
             ELSE LET user == Get(resp, "user", JObj(NoFields))
                  IN  IF ~IsObj(user) THEN Raise(401)
                      ELSE IF ~Truthy(Get(user, "_id", None)) THEN Raise(401)
                      ELSE user_context(user)

\* lines 53-122 given what requests.post did; an HTTPException raised inside
\* the try is itself caught by `except Exception` and raised again as 401
verify_bubble_token(creds, outcome) ==
    IF creds = None THEN Raise(401)
    ELSE IF outcome.kind = "error" THEN Raise(401)
    ELSE IF status_rejected(outcome) THEN Raise(401)
    ELSE extract_user(outcome.body)

(***************************************************************************)
(* Key derivation.                                                         *)
(***************************************************************************)
\* line 146
original_extension(name) == splitext(name)[2]

\* upload_safe_filename with the fallback the edge case could have had: a
\* custom filename that sanitizes to nothing is replaced by the original name
upload_safe_filename_fallback(name, custom) ==
    IF Truthy(custom) /\ Sanitize(custom.s) # <<>>
    THEN LET safe == Sanitize(custom.s)
         IN  IF splitext(safe)[2] = <<>>
             THEN splitext(safe)[1] \o splitext(name)[2]
             ELSE safe
    ELSE name

\* lines 149-161: the base filename of /upload
upload_safe_filename(name, custom) ==
    IF Truthy(custom)
    THEN LET safe == Sanitize(custom.s)
             filename_base == splitext(safe)[1]
             custom_extension == splitext(safe)[2]
         IN  IF custom_extension = <<>>
             THEN filename_base \o original_extension(name)
             ELSE safe
    ELSE name

\* line 164
upload_timestamped_filename(safe, stamp, name) ==
    splitext(safe)[1] \o <<"_">> \o stamp \o original_extension(name)

\* line 268
presign_timestamped_filename(safe, stamp) ==
    splitext(safe)[1] \o <<"_">> \o stamp \o splitext(safe)[2]

\* lines 170, 270: str(user_data.get('workspace'))
folder_of(context) == str(context.workspace)

\* object_key with the two prefixes in the other order
object_key_user_first(dir, uid, name) ==
    IF dir # <<>> THEN uid \o Slash \o dir \o Slash \o name ELSE uid \o Slash \o name

\* lines 167-174 and 271: the user id in front, the folder in front of it if
\* the folder string is not empty
object_key(dir, uid, name) ==
    LET with_user == uid \o Slash \o name
    IN  IF dir # <<>> THEN dir \o Slash \o with_user ELSE with_user

(***************************************************************************)
(* Outbound calls and responses.                                           *)
(***************************************************************************)
NoCall == [op |-> "", Authorization |-> <<>>, Key |-> <<>>, file_name |-> <<>>,
           file_url |-> <<>>, user_id |-> <<>>, ended |-> ""]

\* ended is "returned" or "raised"
Ended(outcome) == IF outcome.kind = "error" THEN "raised" ELSE "returned"

\* lines 66-81
verify_call(token, outcome) ==
    [NoCall EXCEPT !.op = "verify-user-token",
                   !.Authorization = verify_authorization(token),
                   !.ended = Ended(outcome)]

\* lines 202-207 and 333-336: f"Bearer {token}"
save_authorization(token) == Bearer \o token

\* lines 204-221 and 333-348
save_call(token, name, url, uid, outcome) ==
    [NoCall EXCEPT !.op = "save-s3-url",
                   !.Authorization = save_authorization(token),
                   !.file_name = name, !.file_url = url, !.user_id = uid,
                   !.ended = Ended(outcome)]

\* lines 180-191; the metadata's custom_filename is safe_filename
put_object_call(key, uid, safe, ended) ==
    [NoCall EXCEPT !.op = "put_object", !.Key = key, !.user_id = uid,
                   !.file_name = safe, !.ended = ended]

\* lines 289-293
presign_call(key, ended) ==
    [NoCall EXCEPT !.op = "generate_presigned_url", !.Key = key, !.ended = ended]

ExpiresIn == 3600

NoContent == [filename |-> <<>>, timestamped_filename |-> <<>>, path |-> <<>>,
              url |-> <<>>, final_url |-> <<>>, upload_url |-> <<>>,
              expires |-> 0, user_id |-> <<>>, folder |-> <<>>,
              timestamp |-> <<>>, bubble_save_status |-> "",
              bubble_response |-> ""]

NoResponse == [status_code |-> 0, content |-> NoContent]
\* an HTTPException: a status and a detail string (not modelled)
Error(code) == [status_code |-> code, content |-> NoContent]
Ok(content) == [status_code |-> 200, content |-> content]

\* lines 223-240 and 350-357, 359-360: the response once save-s3-url has
\* answered; an exception of the call or of bubble_response.json() reaches
\* `except Exception` and becomes 500
save_response(outcome, content) ==
    IF outcome.kind = "error" THEN Error(500)
    ELSE IF outcome.status_code = 200
         THEN IF outcome.json
              THEN Ok([content EXCEPT !.bubble_save_status = "success",
                                      !.bubble_response = "json"])
              ELSE Error(500)
         ELSE Ok([content EXCEPT !.bubble_save_status = "failed",
                                 !.bubble_response = "None"])

\* put_object_returns with the except clauses of lines 242-251 swallowing the
\* error instead of raising
put_object_swallowed(outcome) == TRUE

\* lines 180-191, 242-246: does put_object return (and the handler go on)?
put_object_returns(outcome) == outcome = "ok"

(***************************************************************************)
(* The state machine.                                                      *)
(***************************************************************************)
Init ==
    /\ pc = "idle"
    /\ route = ""
    /\ credentials = None
    /\ idp = NoOutcome
    /\ user_data = NoContext
    /\ file_filename = <<>>
    /\ filename = None
    /\ timestamp = <<>>
    /\ user_id = <<>>
    /\ safe_filename = <<>>
    /\ timestamped_filename = <<>>
    /\ new_filename = <<>>
    /\ folder = <<>>
    /\ file_url = <<>>
    /\ calls = <<>>
    /\ response = NoResponse

\* a request arrives on one of the three authenticated routes; the state of
\* the previous request is gone
receive_request ==
    /\ pc \in {"idle", "done"}
    /\ \E r \in Routes, c \in Credentials :
         /\ route' = r
         /\ credentials' = c
    /\ pc' = "verify"
    /\ idp' = NoOutcome
    /\ user_data' = NoContext
    /\ file_filename' = <<>>
    /\ filename' = None
    /\ timestamp' = <<>>
    /\ user_id' = <<>>
    /\ safe_filename' = <<>>
    /\ timestamped_filename' = <<>>
    /\ new_filename' = <<>>
    /\ folder' = <<>>
    /\ file_url' = <<>>
    /\ calls' = <<>>
    /\ response' = NoResponse

\* Depends(verify_bubble_token): the handler runs only if it returns
depends_verify_bubble_token ==
    /\ pc = "verify"
    /\ \E outcome \in (IF credentials = None THEN {NoOutcome} ELSE IdpOutcomes) :
         LET result == verify_bubble_token(credentials, outcome)
         IN  /\ idp' = outcome
             /\ calls' = IF credentials = None THEN calls
                         ELSE Append(calls, verify_call(credentials.s, outcome))
             /\ user_data' = result.user_data
             /\ IF result.ok
                THEN pc' = "handler" /\ response' = response
                ELSE pc' = "done" /\ response' = Error(result.status_code)
    /\ UNCHANGED <<route, credentials, file_filename, filename, timestamp, user_id,
                   safe_filename, timestamped_filename, new_filename, folder,
                   file_url>>

\* upload_file, lines 132-174: the key is derived
upload_derive ==
    /\ pc = "handler"
    /\ route = "upload"
    /\ \E name \in OriginalNames, custom \in CustomNames, now \in Nows :
         LET uid == str(user_data._id)
             stamp == strftime(now)
             safe == upload_safe_filename(name, custom)
             stamped == upload_timestamped_filename(safe, stamp, name)
             dir == folder_of(user_data)
         IN  /\ file_filename' = name
             /\ filename' = custom
             /\ user_id' = uid
             /\ IF uid = <<>>
                THEN \* line 136's HTTPException(401) is caught at line 247
                     /\ pc' = "done"
                     /\ response' = Error(500)
                     /\ UNCHANGED <<timestamp, safe_filename, timestamped_filename,
                                    new_filename, folder>>
                ELSE /\ pc' = "put"
                     /\ response' = response
                     /\ timestamp' = stamp
                     /\ safe_filename' = safe
                     /\ timestamped_filename' = stamped
                     /\ folder' = dir
                     /\ new_filename' = object_key(dir, uid, stamped)
    /\ UNCHANGED <<route, credentials, idp, user_data, file_url, calls>>

\* upload_file, lines 176-194: the file is read and written to the bucket
upload_put ==
    /\ pc = "put"
    /\ \E outcome \in {"ok", "ClientError", "ReadError"} :
         /\ calls' = IF outcome = "ReadError" THEN calls
                     ELSE Append(calls,
                            put_object_call(new_filename, user_id, safe_filename,
                                            IF outcome = "ok" THEN "returned" ELSE "raised"))
         /\ IF put_object_returns(outcome)
            THEN /\ file_url' = s3_url(new_filename)
                 /\ pc' = "save"
                 /\ response' = response
            ELSE /\ file_url' = file_url
                 /\ pc' = "done"
                 /\ response' = Error(500)
    /\ UNCHANGED <<route, credentials, idp, user_data, file_filename, filename,
                   timestamp, user_id, safe_filename, timestamped_filename,
                   new_filename, folder>>

\* upload_file, lines 196-251: the URL is reported to save-s3-url
upload_save ==
    /\ pc = "save"
    /\ \E outcome \in SaveOutcomes :
         /\ calls' = Append(calls, save_call(credentials.s, safe_filename, file_url,
                                             user_id, outcome))
         /\ response' = save_response(outcome,
                [NoContent EXCEPT !.filename = safe_filename,
                                  !.timestamped_filename = timestamped_filename,
                                  !.path = new_filename,
                                  !.url = file_url,
                                  !.user_id = user_id,
                                  !.folder = folder,
                                  !.timestamp = timestamp])
    /\ pc' = "done"
    /\ UNCHANGED <<route, credentials, idp, user_data, file_filename, filename,
                   timestamp, user_id, safe_filename, timestamped_filename,
                   new_filename, folder, file_url>>

\* get_upload_url, lines 261-314
get_upload_url ==
    /\ pc = "handler"
    /\ route = "get-upload-url"
    /\ \E name \in FilenameParams, now \in Nows, outcome \in {"returned", "raised"} :
         LET uid == str(user_data._id)
             stamp == strftime(now)
             safe == Sanitize(name)
             stamped == presign_timestamped_filename(safe, stamp)
             dir == folder_of(user_data)
             key == object_key(dir, uid, stamped)
         IN  /\ filename' = JStr(name)
             /\ user_id' = uid
             /\ IF uid = <<>>
                THEN \* line 264's HTTPException(401) is caught at line 311
                     /\ response' = Error(500)
                     /\ UNCHANGED <<timestamp, safe_filename, timestamped_filename,
                                    new_filename, folder, file_url, calls>>
                ELSE /\ timestamp' = stamp
                     /\ safe_filename' = safe
                     /\ timestamped_filename' = stamped
                     /\ folder' = dir
                     /\ new_filename' = key
                     /\ calls' = Append(calls, presign_call(key, outcome))
                     /\ file_url' = IF outcome = "returned" THEN s3_url(key) ELSE file_url
                     /\ response' =
                          IF outcome = "returned"
                          THEN Ok([NoContent EXCEPT !.upload_url = key,
                                                    !.expires = ExpiresIn,
                                                    !.final_url = s3_url(key),
                                                    !.filename = safe,
                                                    !.path = key,
                                                    !.user_id = uid,
                                                    !.folder = dir,
                                                    !.timestamp = stamp])
                          ELSE Error(500)
    /\ pc' = "done"
    /\ UNCHANGED <<route, credentials, idp, user_data, file_filename>>

\* confirm_upload, lines 324-360
confirm_upload ==
    /\ pc = "handler"
    /\ route = "confirm-upload"
    /\ \E url \in FileUrls, name \in FilenameParams, outcome \in SaveOutcomes :
         LET uid == str(user_data._id)
         IN  /\ filename' = JStr(name)
             /\ file_url' = url
             /\ user_id' = uid
             /\ calls' = Append(calls, save_call(credentials.s, name, url, uid, outcome))
             /\ response' = save_response(outcome, NoContent)
    /\ pc' = "done"
    /\ UNCHANGED <<route, credentials, idp, user_data, file_filename, timestamp,
                   safe_filename, timestamped_filename, new_filename, folder>>

Next ==
    \/ receive_request
    \/ depends_verify_bubble_token
    \/ upload_derive
    \/ upload_put
    \/ upload_save
    \/ get_upload_url
    \/ confirm_upload

Spec == Init /\ [][Next]_vars

(***************************************************************************)
(* Vocabulary of the properties.                                           *)
(***************************************************************************)
Count(s, c) == Cardinality({i \in 1..Len(s) : s[i] = c})
HasDotDot(s) == \E i \in 1..(Len(s) - 1) : s[i] = "." /\ s[i + 1] = "."
CallsOf(ops) == {i \in 1..Len(calls) : calls[i].op \in ops}
KeyDerived == route \in {"upload", "get-upload-url"} /\ new_filename # <<>>

\* the body carries status 'success'
BodySaysSuccess(body) ==
    /\ IsObj(body)
    /\ "status" \in DOMAIN body.o
    /\ body.o["status"] = JStr(Success)

\* the body carries response.user._id, a non-empty string
BodyHasUserId(body) ==
    /\ IsObj(body)
    /\ "response" \in DOMAIN body.o
    /\ IsObj(body.o["response"])
    /\ "user" \in DOMAIN body.o["response"].o
    /\ IsObj(body.o["response"].o["user"])
    /\ "_id" \in DOMAIN body.o["response"].o["user"].o
    /\ body.o["response"].o["user"].o["_id"].t = "str"
    /\ body.o["response"].o["user"].o["_id"].s # <<>>

\* the three conditions of a successful verification
ProviderAccepts ==
    /\ idp.kind = "response"
    /\ idp.status_code = 200
    /\ BodySaysSuccess(idp.body)
    /\ BodyHasUserId(idp.body)

\* verification has run and one of the listed causes of failure holds
VerificationFails ==
    /\ pc \notin {"idle", "verify"}
    /\ \/ credentials = None
       \/ idp.kind = "error"
       \/ ~ProviderAccepts

C2_UploadSurvivesConfirmationFailure ==
    ( /\ route = "upload"
      /\ pc = "done"
      /\ \E i \in CallsOf({"put_object"}) : calls[i].ended = "returned" )
    => /\ response.status_code = 200
       /\ response.content.bubble_save_status \in {"success", "failed"}

\* C3 (as claimed): a derived key never contains '..', and its only '/' are
\* the separators the deriver inserts (one after the user id, one after the
\* folder when there is one).
C3_KeyHasNoTraversal ==
    KeyDerived =>
        /\ ~HasDotDot(new_filename)
        /\ Count(new_filename, "/") = (IF folder # <<>> THEN 2 ELSE 1)

\* C4 (as claimed): verification returns a context exactly when the answer is
\* 200, says 'success' and carries a non-empty user _id; the context's _id is
\* the provider's, and every other answer ends in 401.
C4_ContextIffThreeConditions ==
    (pc \notin {"idle", "verify"} /\ credentials # None) =>
        /\ (user_data # NoContext) <=> ProviderAccepts
        /\ user_data # NoContext =>
             user_data._id = idp.body.o["response"].o["user"].o["_id"]
        /\ user_data = NoContext => (pc = "done" /\ response.status_code = 401)

\* a name of the shape stem.ext: a stem without '/' that is not made of dots
\* alone, one dot, and an extension without '.' or '/'
PlainStem(stem) ==
    /\ stem # <<>>
    /\ \A i \in 1..Len(stem) : stem[i] # "/"
    /\ \E i \in 1..Len(stem) : stem[i] # "."
PlainExt(ext) ==
    /\ ext # <<>>
    /\ \A i \in 1..Len(ext) : ext[i] \notin {".", "/"}
StemDotExt(name) ==
    { parts \in { <<SubSeq(name, 1, i - 1), SubSeq(name, i + 1, Len(name))>> :
                    i \in {j \in 1..Len(name) : name[j] = "."} } :
        PlainStem(parts[1]) /\ PlainExt(parts[2]) }

\* the timestamp tokens of the two instants of Nows, written out
Token_20240301_100000 ==
    <<"2","0","2","4","0","3","0","1","_","1","0","0","0","0","0">>
Token_20251231_235959 ==
    <<"2","0","2","5","1","2","3","1","_","2","3","5","9","5","9">>

BucketUrl ==
    <<"h","t","t","p","s",":","/","/","b","k","t",".","s","3",".",
      "a","p","-","s","o","u","t","h","e","a","s","t","-","2",".",
      "a","m","a","z","o","n","a","w","s",".","c","o","m","/">>

\* C5: an /upload without custom filename (none, or an empty one) by a user with id U and workspace W
\* of a file 'stem.ext' at timestamp token T writes the key 'W/U/stem_T.ext'
\* and returns the bucket URL followed by that key.
C5_UploadKeyIsWorkspaceUserStemTimestampExt ==
    ( /\ route = "upload"
      /\ pc \in {"put", "save", "done"}
      /\ new_filename # <<>>
      /\ ~Truthy(filename)
      /\ user_data.workspace.t = "str"
      /\ user_data.workspace.s # <<>> )
    => \A parts \in StemDotExt(file_filename) :
         LET key == user_data.workspace.s \o <<"/">> \o user_data._id.s \o <<"/">>
                      \o parts[1] \o <<"_">> \o timestamp \o <<".">> \o parts[2]
         IN  /\ timestamp \in {Token_20240301_100000, Token_20251231_235959}
             /\ new_filename = key
             /\ \A i \in CallsOf({"put_object"}) : calls[i].Key = key
             /\ pc = "save" => file_url = BucketUrl \o key
             /\ (pc = "done" /\ response.status_code = 200) =>
                  /\ response.content.path = key
                  /\ response.content.url = BucketUrl \o key

C5_Witness ==
    /\ route = "upload"
    /\ pc = "done"
    /\ response.status_code = 200
    /\ filename = None
    /\ file_filename = <<"r", ".", "r">>
    /\ user_data.workspace = JStr(<<"t","A">>)
    /\ user_data._id = JStr(<<"u","1">>)
    /\ \E i \in CallsOf({"put_object"}) :
         calls[i].Key = <<"t","A","/","u","1","/","r","_">> \o Token_20240301_100000
                          \o <<".","r">>

\* C6 (as claimed): when the user record carries no Workspace value the key
\* is 'userId/filename', with no segment in front of the user id.
C6_NoWorkspaceNoPrefix ==
    (KeyDerived /\ user_data.workspace = None) =>
        new_filename = user_id \o <<"/">> \o timestamped_filename

\* C7: within one /upload the outbound calls are verify-user-token, then
\* put_object, then save-s3-url; save-s3-url is issued only after put_object
\* has returned, and a put_object that raises ends the request with 500 and
\* without a save-s3-url call.
C7_UploadCallOrder ==
    route = "upload" =>
        /\ [i \in 1..Len(calls) |-> calls[i].op]
             \in { <<>>,
                   <<"verify-user-token">>,
                   <<"verify-user-token", "put_object">>,
                   <<"verify-user-token", "put_object", "save-s3-url">> }
        /\ Len(calls) >= 2 => (calls[1].ended = "returned" /\ user_data # NoContext)
        /\ Len(calls) = 3 => calls[2].ended = "returned"
        /\ (Len(calls) = 2 /\ calls[2].ended = "raised") =>
             (pc = "done" /\ response.status_code = 500)

C7_Witness ==
    /\ route = "upload"
    /\ pc = "done"
    /\ Len(calls) = 2
    /\ calls[2].op = "put_object"
    /\ calls[2].ended = "raised"
    /\ response.status_code = 500

\* C8 (as claimed): with a custom filename the base filename is the sanitized
\* custom filename, the original extension appended only if it has none, and
\* the timestamped filename is the base filename's stem, '_', the timestamp
\* and the base filename's own extension.  Stated for custom filenames of
\* which sanitising leaves something; the others are the subject of C10.
C8_CustomExtensionKept ==
    ( /\ route = "upload"
      /\ new_filename # <<>>
      /\ Truthy(filename)
      /\ Sanitize(filename.s) # <<>> )
    => LET sanitized == Sanitize(filename.s)
           base == IF splitext(sanitized)[2] = <<>>
                   THEN sanitized \o splitext(file_filename)[2]
                   ELSE sanitized
       IN  /\ safe_filename = base
           /\ timestamped_filename =
                splitext(base)[1] \o <<"_">> \o timestamp \o splitext(base)[2]

\* the header is 'Bearer ' and a credential that does not begin with 'Bearer '
BearerOnce(header) ==
    /\ startswith(header, Bearer)
    /\ ~startswith(SubSeq(header, Len(Bearer) + 1, Len(header)), Bearer)

\* C9 (as claimed): the Authorization header sent to save-s3-url is the one
\* sent to verify-user-token in the same request, and 'Bearer ' is in it once,
\* whether or not the credential begins with 'Bearer '.
C9_SameAuthorizationHeader ==
    \A i \in CallsOf({"save-s3-url"}) :
        /\ calls[1].op = "verify-user-token"
        /\ calls[i].Authorization = calls[1].Authorization
        /\ BearerOnce(calls[i].Authorization)
        /\ BearerOnce(calls[1].Authorization)

\* a non-empty custom filename none of whose characters survives sanitising
AllDisallowed(custom) ==
    /\ custom.t = "str"
    /\ custom.s # <<>>
    /\ Sanitize(custom.s) = <<>>

\* C10 (as claimed): a custom filename made of disallowed characters alone
\* falls back to the original stem: the key's last segment is
\* 'originalStem_timestamp.originalExt'.
C10_FallsBackToOriginalStem ==
    (route = "upload" /\ new_filename # <<>> /\ AllDisallowed(filename)) =>
        timestamped_filename =
            splitext(file_filename)[1] \o <<"_">> \o timestamp
              \o splitext(file_filename)[2]

\* C10 (amended): a custom filename made of disallowed characters alone is
\* sanitized to the empty string and nothing replaces it: the base filename
\* is the original extension alone, and the key's last segment is that
\* extension, '_', the timestamp, and that extension again.
C10_CollapsesToExtension ==
    (route = "upload" /\ new_filename # <<>> /\ AllDisallowed(filename)) =>
        LET ext == splitext(file_filename)[2]
        IN  /\ safe_filename = ext
            /\ timestamped_filename = ext \o <<"_">> \o timestamp \o ext
            /\ new_filename =
                 (IF folder # <<>> THEN folder \o <<"/">> ELSE <<>>)
                   \o user_id \o <<"/">> \o ext \o <<"_">> \o timestamp \o ext

C10_Witness ==
    /\ route = "upload"
    /\ pc = "done"
    /\ response.status_code = 200
    /\ filename = JStr(<<"/">>)
    /\ file_filename = <<"r", ".", "r">>
    /\ response.content.timestamped_filename =
         <<".", "r", "_">> \o Token_20240301_100000 \o <<".", "r">>

====
